---- MODULE Spec2Model ----
(***************************************************************************)
(* Model of src/main.ts: one run of the Actor.main callback.  The run      *)
(* reads its input, fans five GitHub requests out under Promise.all, calls *)
(* Gemini once and pushes one record to the dataset.                       *)
(*                                                                         *)
(* Text is a sequence of tokens (a URL is <<"github.com","/","o","/","r">>,*)
(* a path is <<"b",".","ts">>), so that the regular expressions, the fence *)
(* stripping and JSON.parse are computed on structure.                     *)
(***************************************************************************)
EXTENDS Integers, Sequences, FiniteSets, TLC

(* ---------------------------- bounds ---------------------------------- *)

\* longest file tree a tree response carries
MaxTree == 2

(* ------------------------ JavaScript values --------------------------- *)

Undef == [t |-> "undefined", n |-> 0, s |-> <<>>]
Null == [t |-> "null", n |-> 0, s |-> <<>>]
Num(k) == [t |-> "number", n |-> k, s |-> <<>>]
Str(toks) == [t |-> "string", n |-> 0, s |-> toks]

\* ToBoolean on the values above
Truthy(v) ==
    /\ v.t \notin {"undefined", "null"}
    /\ ~(v.t = "string" /\ v.s = <<>>)
    /\ ~(v.t = "number" /\ v.n = 0)

\* property read obj.k on a response body: a missing key reads undefined
Get(body, k) == IF k \in DOMAIN body THEN body[k] ELSE Undef

NoBody == [k \in {} |-> Undef]

\* Array.prototype.slice(0, n) / String.prototype.slice(0, n)
Slice(seq, n) == SubSeq(seq, 1, IF Len(seq) < n THEN Len(seq) ELSE n)

\* does sequence sub occur in sequence seq as a contiguous run
Contains(seq, sub) ==
    \E i \in 0..(Len(seq) - Len(sub)) : SubSeq(seq, i + 1, i + Len(sub)) = sub

(* ------------------------------ input --------------------------------- *)

TEST_MODE == Str(<<"TEST_MODE">>)

Urls ==
    { <<"https://", "github.com", "/", "o", "/", "r">>,
      <<"github.com", "/", "o", "/", "r", "/", "tree">>,
      <<"github.com", "/", "o">>,
      <<"https://", "gitlab.com", "/", "o", "/", "r">> }

RepoUrlValues == {Undef, Str(<<>>)} \cup {Str(u) : u \in Urls}
ApiKeyValues == {Undef, Str(<<>>), TEST_MODE, Str(<<"key">>)}

\* Actor.getInput() yields null or an object; absent fields read undefined
Inputs ==
    {[null |-> TRUE, repoUrl |-> Undef, geminiApiKey |-> Undef]}
    \cup [null : {FALSE}, repoUrl : RepoUrlValues, geminiApiKey : ApiKeyValues]

\* input?.k
OptGet(inp, k) == IF inp.null THEN Undef ELSE inp[k]

\* variant: the health-check test placed after the repoUrl validation
IsTestMode_AfterValidation(inp) ==
    /\ Truthy(OptGet(inp, "repoUrl"))
    /\ OptGet(inp, "geminiApiKey") = TEST_MODE

\* input?.geminiApiKey === "TEST_MODE"
IsTestMode(inp) == OptGet(inp, "geminiApiKey") = TEST_MODE

\* variant: the geminiApiKey test of line 41 left out
MissingField_RepoUrlOnly(inp) == ~Truthy(OptGet(inp, "repoUrl"))

\* !input?.repoUrl || !input?.geminiApiKey : either throw of lines 40-41
MissingField(inp) ==
    \/ ~Truthy(OptGet(inp, "repoUrl"))
    \/ ~Truthy(OptGet(inp, "geminiApiKey"))

\* length of the run of non-"/" tokens of u starting at position i
RECURSIVE RunLen(_, _)
RunLen(u, i) ==
    IF i > Len(u) \/ u[i] = "/" THEN 0 ELSE 1 + RunLen(u, i + 1)

\* does /github\.com\/([^\/]+)\/([^\/]+)/ match with "github.com" at i
MatchAt(u, i) ==
    /\ i + 1 <= Len(u)
    /\ u[i] = "github.com"
    /\ u[i + 1] = "/"
    /\ LET a == RunLen(u, i + 2)
       IN  /\ a > 0
           /\ i + 2 + a <= Len(u)
           /\ RunLen(u, i + 3 + a) > 0

\* repoUrl.match(...): the leftmost match, groups 1 and 2
Match(u) ==
    IF \E i \in 1..Len(u) : MatchAt(u, i)
    THEN LET i == CHOOSE j \in 1..Len(u) :
                    MatchAt(u, j) /\ \A k \in 1..(j - 1) : ~MatchAt(u, k)
             a == RunLen(u, i + 2)
             b == RunLen(u, i + 3 + a)
         IN  [ok |-> TRUE,
              owner |-> SubSeq(u, i + 2, i + 1 + a),
              repo |-> SubSeq(u, i + 3 + a, i + 2 + a + b)]
    ELSE [ok |-> FALSE, owner |-> <<>>, repo |-> <<>>]

(* ------------------------- GitHub responses --------------------------- *)

Idle == [state |-> "idle", status |-> 0, data |-> NoBody]
Pending == [state |-> "pending", status |-> 0, data |-> NoBody]
Resolved(st, body) == [state |-> "resolved", status |-> st, data |-> body]
\* a status >= 500 (or a network error) rejects the axios promise
Rejected == [state |-> "rejected", status |-> 500, data |-> NoBody]

\* validateStatus: (status) => status < 500
validateStatus(status) == status < 500

ErrorBody(msg) == [message |-> Str(<<msg>>)]

Entries ==
    { [type |-> "blob", path |-> <<"b", ".", "ts">>],
      [type |-> "blob", path |-> <<"c", ".", "lock">>],
      [type |-> "tree", path |-> <<"d">>] }

RECURSIVE SeqsUpTo(_, _)
SeqsUpTo(S, n) ==
    IF n = 0 THEN {<<>>}
    ELSE LET shorter == SeqsUpTo(S, n - 1)
         IN  shorter \cup {Append(q, e) : q \in shorter, e \in S}

Trees == SeqsUpTo(Entries, MaxTree)

RepoResponses ==
    { Resolved(200, [description |-> Str(<<"desc">>), stargazers_count |-> Num(5)]),
      Resolved(200, [description |-> Null, stargazers_count |-> Num(0)]),
      Resolved(403, ErrorBody("API rate limit exceeded")),
      Resolved(404, ErrorBody("Not Found")) }

LangResponses ==
    { Resolved(200, [TypeScript |-> Num(100)]),
      Resolved(404, ErrorBody("Not Found")) }

\* base64 text and what Buffer.from(.., 'base64').toString('utf-8') gives
Base64Decode(toks) ==
    IF toks = <<"UkVBRE1F">> THEN <<"R", "E", "A", "D", "M", "E">>
    ELSE IF toks = <<"e30=">> THEN <<"{", "}">>
    ELSE <<>>

ReadmeResponses ==
    { Resolved(200, [content |-> Str(<<"UkVBRE1F">>)]),
      Resolved(404, ErrorBody("Not Found")) }

PkgResponses ==
    { Resolved(200, [content |-> Str(<<"e30=">>)]),
      Resolved(404, ErrorBody("Not Found")) }

TreeResponses ==
    { Resolved(200, [tree |-> t]) : t \in Trees }
    \cup { Resolved(404, ErrorBody("Not Found")) }

ServerError == Resolved(500, ErrorBody("Server Error"))

\* axios.get(url, config): the promise resolves with the response when
\* validateStatus accepts its status and rejects otherwise (a network error
\* rejects the same way)
AxiosGet(response) ==
    IF validateStatus(response.status) THEN response ELSE Rejected

Fetches == {"repoRes", "langRes", "readmeRes", "pkgRes", "treeMain", "treeMaster"}

Responses(f) ==
    CASE f = "repoRes" -> RepoResponses
      [] f = "langRes" -> LangResponses
      [] f = "readmeRes" -> ReadmeResponses
      [] f = "pkgRes" -> PkgResponses
      [] OTHER -> TreeResponses

\* what the server may answer to fetch f
Answers(f) == Responses(f) \cup {ServerError}

(* ------------------------ content transformer ------------------------- *)

ExcludedExt == {"png", "jpg", "jpeg", "svg", "ico", "lockb", "lock"}

\* f.path.match(/\.(png|jpg|jpeg|svg|ico|lockb|lock)$/)
PathExcluded(path) ==
    /\ Len(path) >= 2
    /\ path[Len(path) - 1] = "."
    /\ path[Len(path)] \in ExcludedExt

KeepEntry(f) == f.type = "blob" /\ ~PathExcluded(f.path)

\* treeStructure: no status test, only treeRes?.data?.tree
TreeStructure(tRes) ==
    IF "tree" \in DOMAIN tRes.data
    THEN LET kept == SelectSeq(tRes.data.tree, KeepEntry)
         IN  [i \in 1..Len(kept) |-> kept[i].path]
    ELSE <<>>

\* readmeContent / pkgContent: status === 200 && data.content
DecodedContent(r) ==
    IF r.status = 200 /\ Truthy(Get(r.data, "content"))
    THEN Base64Decode(Get(r.data, "content").s)
    ELSE <<>>

PkgLimit == 5000
ReadmeLimit == 15000
TreeLimit == 300

\* Array.prototype.join('\n') over paths
RECURSIVE JoinLines(_)
JoinLines(paths) ==
    IF paths = <<>> THEN <<>>
    ELSE IF Len(paths) = 1 THEN paths[1]
    ELSE paths[1] \o <<"\n">> \o JoinLines(Tail(paths))

\* the three substitutions of the prompt template
BuildPrompt(pkgR, readmeR, tRes) ==
    [pkg |-> IF DecodedContent(pkgR) # <<>>
             THEN Slice(DecodedContent(pkgR), PkgLimit)
             ELSE <<"Not found">>,
     readme |-> Slice(DecodedContent(readmeR), ReadmeLimit),
     tree |-> JoinLines(Slice(TreeStructure(tRes), TreeLimit))]

NoPrompt == [pkg |-> <<>>, readme |-> <<>>, tree |-> <<>>]

(* -------------------------- response parser --------------------------- *)

FullJson == "{\"purpose\":\"P\",\"tech_stack\":\"TS\",\"architecture_summary\":\"Flat\",\"complexity_score\":3}"
PurposeJson == "{\"purpose\":\"X\"}"

\* the two markdown code-fence markers (three backquotes, with or without
\* the json tag)
FenceJson == "FENCE:json"
Fence == "FENCE"

\* texts result.response.text() may return
AiTexts ==
    { <<FenceJson, "\n", FullJson, "\n", Fence>>,
      <<FenceJson, "\n", PurposeJson, "\n", Fence>>,
      <<FullJson>>,
      <<"Sure:", " ", FenceJson, FullJson, Fence>>,
      <<Fence, "null", Fence, "\n">>,
      <<"7">>,
      <<"[]">>,
      <<"I cannot help">>,
      <<>> }

IsFence(tok) == tok \in {FenceJson, Fence}
NotFence(tok) == ~IsFence(tok)
IsSpace(tok) == tok \in {" ", "\n"}

RECURSIVE TrimStart(_)
TrimStart(toks) ==
    IF toks # <<>> /\ IsSpace(Head(toks)) THEN TrimStart(Tail(toks)) ELSE toks

RECURSIVE TrimEnd(_)
TrimEnd(toks) ==
    IF toks # <<>> /\ IsSpace(toks[Len(toks)])
    THEN TrimEnd(SubSeq(toks, 1, Len(toks) - 1))
    ELSE toks

\* aiText.replace(FENCES, "").trim(), FENCES matching either fence marker
CleanedJson(text) == TrimEnd(TrimStart(SelectSeq(text, NotFence)))

JsObject(fields) == [t |-> "object", f |-> fields]
JsOther(kind) == [t |-> kind, f |-> NoBody]

\* JSON.parse: ok with a value, or a SyntaxError
JsonParse(toks) ==
    IF Len(toks) # 1 THEN [ok |-> FALSE, value |-> JsOther("undefined")]
    ELSE CASE toks[1] = FullJson ->
                [ok |-> TRUE,
                 value |-> JsObject([purpose |-> Str(<<"P">>),
                                     tech_stack |-> Str(<<"TS">>),
                                     architecture_summary |-> Str(<<"Flat">>),
                                     complexity_score |-> Num(3)])]
           [] toks[1] = PurposeJson ->
                [ok |-> TRUE, value |-> JsObject([purpose |-> Str(<<"X">>)])]
           [] toks[1] = "null" -> [ok |-> TRUE, value |-> JsOther("null")]
           [] toks[1] = "7" -> [ok |-> TRUE, value |-> JsOther("number")]
           [] toks[1] = "[]" -> [ok |-> TRUE, value |-> JsOther("array")]
           [] OTHER -> [ok |-> FALSE, value |-> JsOther("undefined")]

Placeholder == <<"AI JSON Parsing Failed. See raw log.">>

AiFields == {"purpose", "tech_stack", "architecture_summary", "complexity_score"}

\* let aiData = {...defaults}
Defaults ==
    [purpose |-> Str(<<"Analysis Failed">>),
     tech_stack |-> Str(<<"Unknown">>),
     architecture_summary |-> Str(<<"Unknown">>),
     complexity_score |-> Num(0)]

\* variant: the catch block leaves aiData as initialised
AiData_NoPlaceholder(text) ==
    LET parsed == JsonParse(CleanedJson(text))
    IN  IF parsed.ok THEN parsed.value ELSE JsObject(Defaults)

\* variant: the parsed object is spread over the defaults
AiData_Merged(text) ==
    LET parsed == JsonParse(CleanedJson(text))
    IN  IF parsed.ok /\ parsed.value.t = "object"
        THEN JsObject([k \in AiFields |->
                IF k \in DOMAIN parsed.value.f THEN parsed.value.f[k] ELSE Defaults[k]])
        ELSE IF parsed.ok THEN parsed.value
        ELSE JsObject([Defaults EXCEPT !.purpose = Str(Placeholder)])

\* the try { aiData = JSON.parse(cleanedJson) } catch { aiData.purpose = ... }
AiData(text) ==
    LET parsed == JsonParse(CleanedJson(text))
    IN  IF parsed.ok THEN parsed.value
        ELSE JsObject([Defaults EXCEPT !.purpose = Str(Placeholder)])

\* reading a property of null throws a TypeError
ReadThrows(v) == v.t \in {"null", "undefined"}

(* --------------------------- output emitter --------------------------- *)

\* the argument of the Actor.pushData call of the normal path
OutputRecord(u, repoR, langR, tRes, aiData) ==
    [repo |-> Str(Match(u).owner \o <<"/">> \o Match(u).repo),
     description |-> IF Truthy(Get(repoR.data, "description"))
                     THEN Get(repoR.data, "description")
                     ELSE Str(<<"No description provided">>),
     stars |-> Get(repoR.data, "stargazers_count"),
     languages |-> langR.data,
     file_tree |-> TreeStructure(tRes),
     purpose |-> Get(aiData.f, "purpose"),
     tech_stack |-> Get(aiData.f, "tech_stack"),
     architecture_summary |-> Get(aiData.f, "architecture_summary"),
     complexity_score |-> Get(aiData.f, "complexity_score")]

\* the fixed record of the TEST_MODE branch
MockRecord ==
    [repo |-> Str(<<"facebook", "/", "react">>),
     description |-> Str(<<"MOCK DATA for Health Check.">>),
     stars |-> Num(100),
     purpose |-> Str(<<"This is a dummy response to pass automated testing without using API credits.">>),
     tech_stack |-> Str(<<"Mock, Test, Dummy">>),
     architecture_summary |-> Str(<<"Automated test structure.">>),
     complexity_score |-> Num(1),
     file_tree |-> << <<"README", ".", "md">>, <<"package", ".", "json">> >>,
     languages |-> [TypeScript |-> Num(100)]]

\* variant: the item is pushed twice
PushData_Twice(ds, rec) == Append(Append(ds, rec), rec)

\* Actor.pushData appends one item to the dataset
PushData(ds, rec) == Append(ds, rec)

(* ------------------------------ state --------------------------------- *)

VARIABLES
    input,      \* what Actor.getInput() returns
    pc,         \* where the main callback stands
    error,      \* the error the run failed with
    res,        \* the six GitHub requests: state, status and body of each
    requests,   \* every network request issued so far, in order
    prompt,     \* the prompt handed to generateContent
    aiCall,     \* state of the generateContent call
    aiText,     \* result.response.text()
    dataset,    \* the items pushed with Actor.pushData
    exited      \* the process has exited

vars == <<input, pc, error, res, requests, prompt, aiCall, aiText, dataset, exited>>

FiveRequests == <<"repo", "languages", "readme", "git/trees/main", "contents/package.json">>

\* the fourth element of the Promise.all array: get(main).catch(() => get(master))
TreeElementState(r) ==
    IF r.treeMain.state = "rejected" THEN r.treeMaster.state ELSE r.treeMain.state

\* variant: no fallback value, treeRes is always the answer for branch main
TreeRes_MainOnly(r) == r.treeMain

\* treeRes: the value that element resolves with
TreeRes(r) == IF r.treeMain.state = "rejected" THEN r.treeMaster ELSE r.treeMain

ElementStates(r) ==
    {r.repoRes.state, r.langRes.state, r.readmeRes.state, TreeElementState(r),
     r.pkgRes.state}

\* variant: only the metadata request is awaited
AllResolved_RepoOnly(r) == r.repoRes.state = "resolved"

\* Promise.all fulfils when every element has, rejects as soon as one does
AllResolved(r) == ElementStates(r) = {"resolved"}
AnyRejected(r) == "rejected" \in ElementStates(r)

\* variant: the test compares with 403
NotFound_403(repoR) == repoR.status = 403

\* repoRes.status === 404
NotFound(repoR) == repoR.status = 404

Init ==
    /\ input \in Inputs
    /\ pc = "start"
    /\ error = "none"
    /\ res = [f \in Fetches |-> Idle]
    /\ requests = <<>>
    /\ prompt = NoPrompt
    /\ aiCall = "idle"
    /\ aiText = <<>>
    /\ dataset = <<>>
    /\ exited = FALSE

(* ----------------------------- the run -------------------------------- *)

\* lines 20-38: the health-check branch
TestMode ==
    /\ pc = "start"
    /\ IsTestMode(input)
    /\ dataset' = PushData(dataset, MockRecord)
    /\ pc' = "done"
    /\ exited' = TRUE
    /\ UNCHANGED <<input, error, res, requests, prompt, aiCall, aiText>>

\* lines 40-41
ThrowMissingField ==
    /\ pc = "start"
    /\ ~IsTestMode(input)
    /\ MissingField(input)
    /\ pc' = "failed"
    /\ error' = "MissingField"
    /\ UNCHANGED <<input, res, requests, prompt, aiCall, aiText, dataset, exited>>

\* lines 52-53
ThrowInvalidUrl ==
    /\ pc = "start"
    /\ ~IsTestMode(input)
    /\ ~MissingField(input)
    /\ ~Match(input.repoUrl.s).ok
    /\ pc' = "failed"
    /\ error' = "InvalidUrl"
    /\ UNCHANGED <<input, res, requests, prompt, aiCall, aiText, dataset, exited>>

\* lines 72-85: the five axios.get calls, then the await of Promise.all
IssueFetches ==
    /\ pc = "start"
    /\ ~IsTestMode(input)
    /\ ~MissingField(input)
    /\ Match(input.repoUrl.s).ok
    /\ res' = [f \in Fetches |-> IF f = "treeMaster" THEN Idle ELSE Pending]
    /\ requests' = FiveRequests
    /\ pc' = "awaitAll"
    /\ UNCHANGED <<input, error, prompt, aiCall, aiText, dataset, exited>>

\* What the main callback does when a request settles into r: nothing unless
\* it awaits Promise.all; the catch block when Promise.all rejects; and when
\* it fulfils, lines 87-136 up to the await of generateContent.
Join(r, reqs) ==
    IF pc = "awaitAll" /\ AnyRejected(r)
    THEN /\ pc' = "failed"
         /\ error' = "TransportFault"
         /\ requests' = reqs
         /\ UNCHANGED <<prompt, aiCall>>
    ELSE IF pc = "awaitAll" /\ AllResolved(r)
    THEN IF NotFound(r.repoRes)
         THEN /\ pc' = "failed"
              /\ error' = "RepositoryNotFound"
              /\ requests' = reqs
              /\ UNCHANGED <<prompt, aiCall>>
         ELSE /\ pc' = "awaitAI"
              /\ prompt' = BuildPrompt(r.pkgRes, r.readmeRes, TreeRes(r))
              /\ aiCall' = "pending"
              /\ requests' = Append(reqs, "generateContent")
              /\ UNCHANGED error
    ELSE /\ requests' = reqs
         /\ UNCHANGED <<pc, error, prompt, aiCall>>

\* a request other than the one for branch main settles
FetchSettles ==
    \E f \in Fetches \ {"treeMain"} : \E answer \in Answers(f) :
        /\ ~exited
        /\ res[f].state = "pending"
        /\ LET r == [res EXCEPT ![f] = AxiosGet(answer)]
           IN  res' = r /\ Join(r, requests)
        /\ UNCHANGED <<input, aiText, dataset, exited>>

\* the request for branch main resolves
TreeMainResolves ==
    \E answer \in Answers("treeMain") :
        /\ ~exited
        /\ res.treeMain.state = "pending"
        /\ AxiosGet(answer).state = "resolved"
        /\ LET r == [res EXCEPT !.treeMain = AxiosGet(answer)]
           IN  res' = r /\ Join(r, requests)
        /\ UNCHANGED <<input, aiText, dataset, exited>>

\* lines 80-82: it rejects, and the catch handler requests branch master
TreeMainRejects ==
    \E answer \in Answers("treeMain") :
        /\ ~exited
        /\ res.treeMain.state = "pending"
        /\ AxiosGet(answer).state = "rejected"
        /\ LET r == [res EXCEPT !.treeMain = AxiosGet(answer), !.treeMaster = Pending]
           IN  res' = r /\ Join(r, Append(requests, "git/trees/master"))
        /\ UNCHANGED <<input, aiText, dataset, exited>>

\* lines 137-170: generateContent returned; parse, then Actor.pushData
AIResolves ==
    \E text \in AiTexts :
        /\ ~exited
        /\ pc = "awaitAI"
        /\ aiCall' = "resolved"
        /\ aiText' = text
        /\ IF ReadThrows(AiData(text))
           THEN /\ pc' = "failed"
                /\ error' = "TypeError"
                /\ UNCHANGED dataset
           ELSE /\ dataset' = PushData(dataset,
                        OutputRecord(input.repoUrl.s, res.repoRes, res.langRes,
                                     TreeRes(res), AiData(text)))
                /\ pc' = "done"
                /\ UNCHANGED error
        /\ UNCHANGED <<input, res, requests, prompt, exited>>

\* generateContent (or response.text()) throws: transport or key fault
AIRejects ==
    /\ ~exited
    /\ pc = "awaitAI"
    /\ aiCall' = "rejected"
    /\ pc' = "failed"
    /\ error' = "AiFault"
    /\ UNCHANGED <<input, res, requests, prompt, aiText, dataset, exited>>

\* Actor.main ends the process once the callback has returned or thrown
Exit ==
    /\ pc \in {"done", "failed"}
    /\ ~exited
    /\ exited' = TRUE
    /\ UNCHANGED <<input, pc, error, res, requests, prompt, aiCall, aiText, dataset>>

Next ==
    \/ TestMode
    \/ ThrowMissingField
    \/ ThrowInvalidUrl
    \/ IssueFetches
    \/ FetchSettles
    \/ TreeMainResolves
    \/ TreeMainRejects
    \/ AIResolves
    \/ AIRejects
    \/ Exit

Spec == Init /\ [][Next]_vars

TypeOK ==
    /\ input \in Inputs
    /\ pc \in {"start", "awaitAll", "awaitAI", "done", "failed"}
    /\ aiCall \in {"idle", "pending", "resolved", "rejected"}
    /\ exited \in BOOLEAN
    /\ Len(dataset) <= 1

(* ============================ properties ============================== *)
(* The properties are stated over the state variables, with their own      *)
(* reading of the input and of the responses.                              *)

Empty == {Undef, Str(<<>>)}

\* the repository URL or the AI API key is absent or empty
LacksField == input.null \/ input.repoUrl \in Empty \/ input.geminiApiKey \in Empty

\* the AI API key is the sentinel
HasSentinelKey == ~input.null /\ input.geminiApiKey = Str(<<"TEST_MODE">>)

Ended == pc \in {"done", "failed"}

Count(seq, x) == Cardinality({i \in DOMAIN seq : seq[i] = x})

\* the fetch of the file tree, fallback included, has resolved / has rejected
TreeFetchResolved ==
    \/ res.treeMain.state = "resolved"
    \/ res.treeMain.state = "rejected" /\ res.treeMaster.state = "resolved"
TreeFetchRejected ==
    res.treeMain.state = "rejected" /\ res.treeMaster.state = "rejected"

FiveResolved ==
    /\ \A f \in {"repoRes", "langRes", "readmeRes", "pkgRes"} : res[f].state = "resolved"
    /\ TreeFetchResolved

SomeFetchRejected ==
    \/ \E f \in {"repoRes", "langRes", "readmeRes", "pkgRes"} : res[f].state = "rejected"
    \/ TreeFetchRejected

MetadataNotFound == res.repoRes.state = "resolved" /\ res.repoRes.status = 404

(* ------------------------------- C1 ----------------------------------- *)

\* C1, as stated: every run whose input lacks the repository URL or the API
\* key (absent or empty) fails with MissingField with no request issued.
C1_AsStated ==
    (LacksField /\ pc # "start")
        => (pc = "failed" /\ error = "MissingField" /\ requests = <<>>)

\* C1, amended: every run whose input lacks the repository URL or the API key
\* and whose API key is not the TEST_MODE sentinel fails with MissingField,
\* and no network request has been issued.
C1_MissingField ==
    (LacksField /\ ~HasSentinelKey /\ pc # "start")
        => (pc = "failed" /\ error = "MissingField" /\ requests = <<>>)

C1_Witness ==
    /\ ~input.null
    /\ input.geminiApiKey = Str(<<>>)
    /\ input.repoUrl \notin Empty
    /\ pc = "failed"
    /\ error = "MissingField"

(* ------------------------------- C2 ----------------------------------- *)

\* C2, as stated: a run whose metadata response has status 404 fails with
\* RepositoryNotFound, whatever the other four requests do (rejection
\* included).
C2_AsStated ==
    (MetadataNotFound /\ Ended) => (pc = "failed" /\ error = "RepositoryNotFound")

\* C2, amended: when the metadata response has status 404 and none of the
\* five fetches rejects, the run fails with RepositoryNotFound, whatever the
\* statuses of the other four responses.
C2_NotFound ==
    (MetadataNotFound /\ FiveResolved)
        => (pc = "failed" /\ error = "RepositoryNotFound")

C2_Witness ==
    /\ MetadataNotFound
    /\ FiveResolved
    /\ res.langRes.status = 404
    /\ res.treeMain.state = "rejected"
    /\ error = "RepositoryNotFound"

(* ------------------------------- C3 ----------------------------------- *)

\* the blob entries of a tree whose path has none of the excluded endings,
\* as paths, in order
RECURSIVE FilteredBlobPaths(_)
FilteredBlobPaths(tree) ==
    IF tree = <<>> THEN <<>>
    ELSE LET f == Head(tree)
             n == Len(f.path)
             dropped ==
                 \/ f.type # "blob"
                 \/ n >= 2 /\ f.path[n - 1] = "."
                    /\ f.path[n] \in {"png", "jpg", "jpeg", "svg", "ico", "lockb", "lock"}
         IN  (IF dropped THEN <<>> ELSE <<f.path>>) \o FilteredBlobPaths(Tail(tree))

MasterSucceeded ==
    /\ res.treeMaster.state = "resolved"
    /\ res.treeMaster.status = 200

NotJsonTexts ==
    { <<"Sure:", " ", FenceJson, FullJson, Fence>>, <<"I cannot help">>, <<>> }

NotObjectTexts ==
    NotJsonTexts \cup { <<Fence, "null", Fence, "\n">>, <<"7">>, <<"[]">> }

\* C5: once the AI call has returned a text that cannot be used as a JSON
\* object, the run completes and emits exactly one output record.
C5_ParseNeverFatal ==
    (aiCall = "resolved" /\ aiText \in NotObjectTexts)
        => (pc = "done" /\ Len(dataset) = 1)

(* ------------------------------- C6 ----------------------------------- *)

PurposeOnlyText == <<FenceJson, "\n", PurposeJson, "\n", Fence>>

\* C6, as stated: for the fenced object that supplies only purpose, the
\* record has the supplied purpose and the preset defaults ("Unknown", 0) for
\* the fields the response does not specify.
C6_AsStated ==
    (aiCall = "resolved" /\ aiText = PurposeOnlyText /\ dataset # <<>>)
        => /\ dataset[1].purpose = Str(<<"X">>)
           /\ dataset[1].tech_stack = Str(<<"Unknown">>)
           /\ dataset[1].architecture_summary = Str(<<"Unknown">>)
           /\ dataset[1].complexity_score = Num(0)

\* C6, amended: for the fenced object that supplies only purpose, the record
\* has the supplied purpose, and every expected field the response does not
\* specify is undefined (the preset defaults are not applied).
C6_PartialObject ==
    (aiCall = "resolved" /\ aiText = PurposeOnlyText /\ dataset # <<>>)
        => /\ dataset[1].purpose = Str(<<"X">>)
           /\ dataset[1].tech_stack = Undef
           /\ dataset[1].architecture_summary = Undef
           /\ dataset[1].complexity_score = Undef

C6_Witness ==
    /\ aiCall = "resolved"
    /\ aiText = PurposeOnlyText
    /\ pc = "done"
    /\ Len(dataset) = 1

(* ------------------------------- C7 ----------------------------------- *)

NonSuccess(r) == r.state = "resolved" /\ r.status \notin 200..299

\* the tree response the run used, if any
UsedTreeResponses ==
    {r \in {res.treeMain, res.treeMaster} : r.state = "resolved"}

\* C7: a secondary response (languages, README, tree, manifest) with a
\* non-success status does not make the run fail, and its body is absent from
\* the prompt and from the output record.
C7_SecondaryTolerated ==
    /\ (FiveResolved /\ ~MetadataNotFound)
          => error \notin {"TransportFault", "RepositoryNotFound"}
    /\ (aiCall # "idle" /\ NonSuccess(res.readmeRes)) => prompt.readme = <<>>
    /\ (aiCall # "idle" /\ NonSuccess(res.pkgRes)) => prompt.pkg = <<"Not found">>
    /\ \A r \in UsedTreeResponses :
          (aiCall # "idle" /\ NonSuccess(r)) => prompt.tree = <<>>
    /\ \A r \in UsedTreeResponses :
          (dataset # <<>> /\ NonSuccess(r)) => dataset[1].file_tree = <<>>
    /\ (dataset # <<>> /\ NonSuccess(res.langRes))
          => dataset[1].languages # res.langRes.data

(* ------------------------------- C8 ----------------------------------- *)

\* C8: when the API key is TEST_MODE, whatever the rest of the input, the run
\* issues no network request, emits exactly the fixed mock record and ends
\* successfully.
C8_TestMode ==
    HasSentinelKey
        => /\ requests = <<>>
           /\ pc \in {"start", "done"}
           /\ error = "none"
           /\ pc = "done" => (dataset = <<MockRecord>> /\ exited)

C8_Witness ==
    /\ HasSentinelKey
    /\ input.repoUrl = Undef
    /\ pc = "done"
    /\ dataset = <<MockRecord>>

(* ------------------------------- C9 ----------------------------------- *)

FatalErrors ==
    {"MissingField", "InvalidUrl", "RepositoryNotFound", "TransportFault",
     "AiFault", "TypeError"}

\* C9: at most one record is ever emitted: exactly one when the run has ended
\* successfully, none when it has ended with a fatal error, none before.
C9_RecordCount ==
    /\ Len(dataset) <= 1
    /\ pc = "done" => (Len(dataset) = 1 /\ error = "none")
    /\ pc = "failed" => (Len(dataset) = 0 /\ error \in FatalErrors)
    /\ pc \notin {"done", "failed"} => Len(dataset) = 0

C9_Witness ==
    /\ pc = "failed"
    /\ error = "AiFault"
    /\ exited
    /\ dataset = <<>>

(* ------------------------------- C10 ---------------------------------- *)

\* C10: the generative-AI request is issued at most once, only when all five
\* fetches (the tree fetch with its fallback) have resolved and the metadata
\* status is not 404; while a fetch has rejected or the metadata status is
\* 404, it has not been issued.
C10_AiAfterJoin ==
    /\ Count(requests, "generateContent") <= 1
    /\ aiCall = "idle" <=> Count(requests, "generateContent") = 0
    /\ aiCall # "idle" => (FiveResolved /\ ~MetadataNotFound)
    /\ (SomeFetchRejected \/ MetadataNotFound) => aiCall = "idle"

C10_Witness ==
    /\ aiCall = "pending"
    /\ res.treeMain.state = "rejected"
    /\ res.treeMaster.state = "resolved"
    /\ requests[Len(requests)] = "generateContent"
    /\ Len(requests) = 7

====
